---- MODULE Spec2Model ----
(***************************************************************************)
(* ValidFrame: the per-column validation pipeline of BaseModel             *)
(* (src/src/vframe/basemodel.py), its vectorised helpers                   *)
(* (src/src/vframe/_column_validation.py), its parallel orchestration, and *)
(* the field-type constructors (src/src/vrame/column_types.py) with their  *)
(* argument validators (src/src/vrame/_column_types_validation.py).        *)
(*                                                                         *)
(* Three specifications: Spec, a call of validate() with its workers       *)
(* interleaved, followed by a second validation of the returned table;     *)
(* StageSpec, one direct call of one stage function; CtorSpec, one call    *)
(* of one field-type constructor, of one argument validator or of          *)
(* BaseModel.__init__ on a model class.                                    *)
(*                                                                         *)
(* A cell is a record [k, n, s]: k is the Python type of the value, n its  *)
(* numeric value (int, float, bool, datetime ordinal) or its item count    *)
(* (list, tuple, set, dict), and s its text (the content of a str, the     *)
(* repr of a collection).  Columns are object-dtype sequences of cells:    *)
(* the dtype pandas infers for the result of Series.apply (an int beside   *)
(* a float becoming a float) is not modelled.  Floats of the model are     *)
(* integer-valued (1.0, 11.0, ...).  Tables have at least one schema       *)
(* column; a column of no rows appears in the direct stage calls only.     *)
(***************************************************************************)
EXTENDS Integers, Sequences, FiniteSets, TLC

VARIABLES
    frame,      \* self.frame: column name -> sequence of cells (the caller's table)
    frame0,     \* history: the table as the caller handed it over
    field_type, \* self.field_type: the schema, a sequence of [name, field]
    n_jobs,     \* self.n_jobs
    pc,         \* per schema index: position of the column's _validate call
    column,     \* per schema index: the local variable `column` of _validate
    trace,      \* history, per schema index: the stages _validate has run
    error,      \* per schema index: the exception _validate raised, or NoError
    executed,   \* history: texts whose call expressions eval has run
    completed,  \* history: the schema indices in the order their workers finished
    result,     \* outcome of validate(): running, returned (a table) or raised
    call,       \* a direct call of one stage function: its arguments and outcome
    validated,  \* history: the table the previous call of validate returned
    ctor        \* a call of a field-type constructor: its arguments and outcome

vars == <<frame, frame0, field_type, n_jobs, pc, column, trace, error,
          executed, completed, result, call, validated, ctor>>

----------------------------------------------------------------------------
(* Bounds *)

\* number of schema columns of a validation session
NumCols == 2
\* largest parallelism degree tried
MaxJobs == 2
\* longest column handed to a stage function called on its own
MaxRows == 3

(* np.inf, the default of the upper bounds; -np.inf is its negation *)
Inf == 1000

----------------------------------------------------------------------------
(* Cells *)

None == [k |-> "NoneType", n |-> 0, s |-> "None"]
NaN == [k |-> "float", n |-> Inf + 1, s |-> "nan"]
IntCell(v) == [k |-> "int", n |-> v, s |-> ""]
FloatCell(v) == [k |-> "float", n |-> v, s |-> ""]
BoolCell(b) == [k |-> "bool", n |-> IF b THEN 1 ELSE 0, s |-> ""]
StrCell(t) == [k |-> "str", n |-> 0, s |-> t]
\* a collection of v items whose repr is t
Coll(kind, v, t) == [k |-> kind, n |-> v, s |-> t]
DtCell(v) == [k |-> "datetime", n |-> v, s |-> ""]
NaT == [k |-> "NaT", n |-> 0, s |-> "NaT"]

\* pd.isnull on one cell
isnull(c) == c = None \/ c = NaN \/ c = NaT

\* Python's isinstance(cell, dtype); bool is a subclass of int, nan is a
\* float, pandas' Timestamp and NaT are subclasses of datetime
isinstance(c, dtype) ==
    CASE dtype = "int" -> c.k \in {"int", "bool"}
      [] dtype = "datetime" -> c.k \in {"datetime", "NaT"}
      [] OTHER -> c.k = dtype

----------------------------------------------------------------------------
(* Field types: src/src/vrame/column_types.py.  One record shape for all  *)
(* tags; the attributes a tag does not have are left at their defaults.   *)

Field(tag, nullable, skipna, lower, upper, allow, lo, hi) ==
    [tag |-> tag, nullable |-> nullable, skipna |-> skipna,
     lower |-> lower, upper |-> upper, allow |-> allow,
     min |-> lo, max |-> hi]

Integer(lower, upper, nullable, skipna, allow_float) ==
    Field("Integer", nullable, skipna, lower, upper, allow_float, 0, Inf)
Float(lower, upper, nullable, skipna, allow_int) ==
    Field("Float", nullable, skipna, lower, upper, allow_int, 0, Inf)
Boolean(nullable, skipna) ==
    Field("Boolean", nullable, skipna, -Inf, Inf, FALSE, 0, Inf)
String(min_length, max_length, nullable, skipna) ==
    Field("String", nullable, skipna, -Inf, Inf, FALSE, min_length, max_length)
Datetime(lower, upper, nullable, skipna) ==
    Field("Datetime", nullable, skipna, lower, upper, FALSE, 0, Inf)
List(min_items, max_items, nullable, skipna) ==
    Field("List", nullable, skipna, -Inf, Inf, FALSE, min_items, max_items)
Tuple(min_items, max_items, nullable, skipna) ==
    Field("Tuple", nullable, skipna, -Inf, Inf, FALSE, min_items, max_items)
Set(min_items, max_items, nullable, skipna) ==
    Field("Set", nullable, skipna, -Inf, Inf, FALSE, min_items, max_items)
Dictionary(min_items, max_items, nullable, skipna) ==
    Field("Dictionary", nullable, skipna, -Inf, Inf, FALSE, min_items, max_items)
Object(nullable, skipna) ==
    Field("Object", nullable, skipna, -Inf, Inf, FALSE, 0, Inf)

\* the native Python type of a field's cells
NativeType(field) ==
    CASE field.tag = "Integer" -> "int"
      [] field.tag = "Float" -> "float"
      [] field.tag = "Boolean" -> "bool"
      [] field.tag = "Datetime" -> "datetime"
      [] field.tag = "String" -> "str"
      [] field.tag = "List" -> "list"
      [] field.tag = "Tuple" -> "tuple"
      [] field.tag = "Set" -> "set"
      [] field.tag = "Dictionary" -> "dict"
      [] OTHER -> "object"

----------------------------------------------------------------------------
(* Exceptions.  kind is the Python class raised, rule the check that       *)
(* raised it, column the column name the message carries ("" when the      *)
(* message carries none), bound and value the numbers the message reports. *)

Err(kind, rule, name, bound, value) ==
    [kind |-> kind, rule |-> rule, column |-> name,
     bound |-> bound, value |-> value]

NoError == Err("none", "", "", <<>>, <<>>)

----------------------------------------------------------------------------
(* Python's str() and eval() on the texts of the model *)

Digits == <<"0", "1", "2", "3", "4", "5", "6", "7", "8", "9", "10", "11", "12">>
Values == (1 - Len(Digits)) .. (Len(Digits) - 1)

IntRepr(v) == IF v < 0 THEN "-" \o Digits[1 - v] ELSE Digits[v + 1]
FloatRepr(v) == IntRepr(v) \o ".0"
DtRepr(v) == "2024-03-" \o IntRepr(v)

\* str(cell), as astype(str) computes it
Repr(c) ==
    CASE c.k = "int" -> IntRepr(c.n)
      [] c.k = "float" -> IF c = NaN THEN "nan" ELSE FloatRepr(c.n)
      [] c.k = "bool" -> IF c.n = 1 THEN "True" ELSE "False"
      [] c.k = "datetime" -> DtRepr(c.n)
      [] OTHER -> c.s

\* the literals of the restricted grammar of the specification: integers,
\* floats, booleans, quoted strings, bracket and brace collections of these
Literals ==
    [t \in {IntRepr(v) : v \in Values} |-> IntCell(CHOOSE v \in Values : IntRepr(v) = t)]
    @@ [t \in {FloatRepr(v) : v \in Values} |-> FloatCell(CHOOSE v \in Values : FloatRepr(v) = t)]
    @@ ("True" :> BoolCell(TRUE)) @@ ("False" :> BoolCell(FALSE))
    @@ ("'a'" :> StrCell("a")) @@ ("'1'" :> StrCell("1"))
    @@ ("[]" :> Coll("list", 0, "[]"))
    @@ ("[1]" :> Coll("list", 1, "[1]"))
    @@ ("[1, 2]" :> Coll("list", 2, "[1, 2]"))
    @@ ("[1, 2, 3]" :> Coll("list", 3, "[1, 2, 3]"))
    @@ ("(1, 2)" :> Coll("tuple", 2, "(1, 2)"))
    @@ ("{1}" :> Coll("set", 1, "{1}"))
    @@ ("{'k': 1}" :> Coll("dict", 1, "{'k': 1}"))

IsLiteral(t) == t \in DOMAIN Literals

\* the outcome of eval: the exception it raises ("" when none), the value it
\* returns, and whether a call expression of the text was run
Evaluated(v) == [exc |-> "", val |-> v, ran |-> FALSE]
Raised(kind) == [exc |-> kind, val |-> None, ran |-> FALSE]

\* a call expression that binds the name foo in the globals eval runs in
\* (those of module _column_validation) and evaluates to 1
Binder == "globals().update(foo=1) or 1"
Binds(t) == IF t = Binder THEN {"foo"} ELSE {}

\* the names the texts run so far have bound in the globals of the module
Globals(texts) == UNION {Binds(t) : t \in texts}

\* eval(arg) for a str arg: Python compiles the text as an expression and
\* runs it in the globals of the module, where `names` are bound beside the
\* builtins.  Literals evaluate to their value; so do parenthesised
\* expressions, the name None, operators, calls and bound names; an unbound
\* identifier raises NameError, a statement or an empty text SyntaxError.
eval(t, names) ==
    CASE IsLiteral(t) -> Evaluated(Literals[t])
      [] t = Binder -> [exc |-> "", val |-> IntCell(1), ran |-> TRUE]
      [] t \in names -> Evaluated(IntCell(1))
      [] t = "(1)" -> Evaluated(IntCell(1))
      [] t = "None" -> Evaluated(None)
      [] t = "1+1" -> Evaluated(IntCell(2))
      [] t = "len('ab')" -> [exc |-> "", val |-> IntCell(2), ran |-> TRUE]
      [] t = "1/0" -> Raised("ZeroDivisionError")
      [] t = "1+'a'" -> Raised("TypeError")
      [] t \in {"import os", ""} -> Raised("SyntaxError")
      [] OTHER -> Raised("NameError")

\* faulty variant: the TypeError of eval on a non-text argument is not caught
_try_eval_uncaught(arg, names) ==
    IF arg.k # "str" THEN Raised("TypeError") ELSE eval(arg.s, names)

\* _try_eval(arg): eval(arg), and arg itself when eval raises TypeError (as it
\* does for every arg that is not a str)
_try_eval(arg, names) ==
    IF arg.k # "str"
    THEN Evaluated(arg)
    ELSE IF eval(arg.s, names).exc = "TypeError" THEN Evaluated(arg)
         ELSE eval(arg.s, names)

----------------------------------------------------------------------------
(* The vectorised predicates of _column_validation.py.  np.vectorize       *)
(* raises ValueError on a size-0 input: VecRaises.                         *)

VecRaises(col) == Len(col) = 0

_vec_isinstance(arg, dtype) == \A i \in DOMAIN arg : isinstance(arg[i], dtype)

_vec_isnumeric(arg) ==
    \A i \in DOMAIN arg : isinstance(arg[i], "int") \/ isinstance(arg[i], "float")

vec_is_datetime(arg) == \A i \in DOMAIN arg : isinstance(arg[i], "datetime")

\* len(cell): defined for str and the collections, TypeError for the rest
HasLen(c) == c.k \in {"str", "list", "tuple", "set", "dict"}
len(c) == IF c.k = "str" THEN Len(c.s) ELSE c.n

----------------------------------------------------------------------------
(* The stage functions of BaseModel *)

\* faulty variant: the nullable flag is not consulted
_check_null_any(field, col, name) ==
    IF Cardinality({i \in DOMAIN col : isnull(col[i])}) > 0
    THEN Err("ValueError", "null", name, <<>>, <<>>)
    ELSE NoError

\* BaseModel._check_null: ValueError when a non-nullable column holds a null
_check_null(field, col, name) ==
    IF ~field.nullable /\ Cardinality({i \in DOMAIN col : isnull(col[i])}) > 0
    THEN Err("ValueError", "null", name, <<>>, <<>>)
    ELSE NoError

\* the outcome of the parse stage: the exception raised (or NoError), the
\* parsed column, and the texts whose calls were run on the way
Parsed(err, col, ran) == [err |-> err, col |-> col, ran |-> ran]

\* column.apply(_try_eval): cell by cell, in order, up to the first
\* exception; a cell is evaluated with the names the cells before it bound
NamesAt(col, i, names) ==
    names \cup UNION {Binds(col[j].s) : j \in {k \in 1 .. (i - 1) : col[k].k = "str"}}
Applied(col, i, names) == _try_eval(col[i], NamesAt(col, i, names))
Raising(col, names) == {i \in DOMAIN col : Applied(col, i, names).exc # ""}
FirstRaising(col, names) ==
    CHOOSE i \in Raising(col, names) : \A j \in Raising(col, names) : i <= j
Ran(col, upto, names) ==
    {col[i].s : i \in {j \in 1 .. upto : Applied(col, j, names).ran}}

\* the except clause of _parse: NameError becomes ParseError naming the
\* column, every other exception propagates as it is
ParseException(kind, name) ==
    IF kind = "NameError"
    THEN Err("ParseError", "parse", name, <<>>, <<>>)
    ELSE Err(kind, "parse", "", <<>>, <<>>)

apply_try_eval(col, name, names) ==
    IF Raising(col, names) = {}
    THEN Parsed(NoError, [i \in DOMAIN col |-> Applied(col, i, names).val],
                Ran(col, Len(col), names))
    ELSE Parsed(ParseException(Applied(col, FirstRaising(col, names), names).exc, name),
                col, Ran(col, FirstRaising(col, names) - 1, names))

\* pd.to_datetime on one cell: datetimes stay, nulls become NaT, date texts
\* are parsed, epoch numbers converted; other text raises ValueError, other
\* values TypeError
Days == 1 .. (Len(Digits) - 1)
IsDateText(t) == \E v \in Days : DtRepr(v) = t
DateOf(t) == DtCell(CHOOSE v \in Days : DtRepr(v) = t)
to_datetime(c) ==
    CASE c.k = "datetime" -> Evaluated(c)
      [] isnull(c) -> Evaluated(NaT)
      [] c.k = "str" -> IF IsDateText(c.s) THEN Evaluated(DateOf(c.s))
                        ELSE Raised("ValueError")
      [] c.k \in {"int", "float"} /\ ~isnull(c) -> Evaluated(DtCell(0))
      [] OTHER -> Raised("TypeError")

DtRaising(col) == {i \in DOMAIN col : to_datetime(col[i]).exc # ""}
FirstDtRaising(col) == CHOOSE i \in DtRaising(col) : \A j \in DtRaising(col) : i <= j

\* BaseModel._parse, run where `names` are bound in the globals of eval
_parse(field, col, name, names) ==
    CASE field.tag \in {"Integer", "Float", "Boolean", "List",
                        "Tuple", "Dictionary", "Set"} ->
             apply_try_eval(col, name, names)
      [] field.tag = "Datetime" ->
             IF DtRaising(col) = {}
             THEN Parsed(NoError, [i \in DOMAIN col |-> to_datetime(col[i]).val], {})
             ELSE Parsed(ParseException(to_datetime(col[FirstDtRaising(col)]).exc, name),
                         col, {})
      [] field.tag = "String" ->
             Parsed(NoError, [i \in DOMAIN col |-> StrCell(Repr(col[i]))], {})
      [] OTHER -> Parsed(NoError, col, {})

TypeErr(name) == Err("TypeError", "type", name, <<>>, <<>>)
VectorizeErr == Err("ValueError", "vectorize", "", <<>>, <<>>)

\* the loosening flags of the numeric fields, as _check_definition reads them:
\* the mismatch is reported when the flag is set
GatesMismatch(field) == field.allow

\* BaseModel._check_definition
_check_definition(field, col, name) ==
    IF field.tag \in {"String", "Object"} THEN NoError
    ELSE IF VecRaises(col) THEN VectorizeErr
    ELSE IF field.tag \in {"Integer", "Float"}
    THEN IF ~_vec_isinstance(col, NativeType(field)) /\ GatesMismatch(field)
         THEN TypeErr(name) ELSE NoError
    ELSE IF ~_vec_isinstance(col, NativeType(field))
         THEN TypeErr(name) ELSE NoError

\* column.min(skipna) and column.max(skipna) of a numeric column: NaN when
\* a NaN is not skipped or nothing is left
Numbers(col) == {col[i].n : i \in {j \in DOMAIN col : col[j] # NaN}}
IsNaNExtreme(col, skipna) ==
    \/ Numbers(col) = {}
    \/ ~skipna /\ \E i \in DOMAIN col : col[i] = NaN
column_min(col, skipna) == CHOOSE m \in Numbers(col) : \A v \in Numbers(col) : m <= v
column_max(col, skipna) == CHOOSE m \in Numbers(col) : \A v \in Numbers(col) : m >= v

\* the two comparisons of _check_range; a comparison with NaN is False
is_ge_lower(field, col) ==
    ~IsNaNExtreme(col, field.skipna) /\ column_min(col, field.skipna) >= field.lower
\* faulty variant: the upper bound is exclusive
is_lt_upper(field, col) ==
    ~IsNaNExtreme(col, field.skipna) /\ column_max(col, field.skipna) < field.upper
is_le_upper(field, col) ==
    ~IsNaNExtreme(col, field.skipna) /\ column_max(col, field.skipna) <= field.upper

\* BaseModel._check_range
_check_range(field, col, name) ==
    CASE field.tag \in {"Integer", "Float"} ->
             IF VecRaises(col) THEN VectorizeErr
             ELSE IF ~_vec_isnumeric(col)
             THEN Err("TypeError", "numeric", name, <<>>, <<>>)
             ELSE IF ~is_ge_lower(field, col)
             THEN Err("OutOfBoundError", "lower", name, <<field.lower>>,
                      IF IsNaNExtreme(col, field.skipna) THEN <<>>
                      ELSE <<column_min(col, field.skipna)>>)
             ELSE IF ~is_le_upper(field, col)
             THEN Err("OutOfBoundError", "upper", name, <<field.upper>>,
                      IF IsNaNExtreme(col, field.skipna) THEN <<>>
                      ELSE <<column_max(col, field.skipna)>>)
             ELSE NoError
      [] field.tag = "Datetime" ->
             IF VecRaises(col) THEN VectorizeErr
             ELSE IF ~vec_is_datetime(col)
             THEN Err("TypeError", "datetime", name, <<>>, <<>>)
             ELSE NoError
      [] OTHER -> NoError

\* _vec_len(column) >= min_items and <= max_items, cell by cell
is_ge_min_items(field, col) == \A i \in DOMAIN col : len(col[i]) >= field.min
\* faulty variant: the item maximum is exclusive
is_lt_max_items(field, col) == \A i \in DOMAIN col : len(col[i]) < field.max
is_le_max_items(field, col) == \A i \in DOMAIN col : len(col[i]) <= field.max

\* column.str.len() is NaN for a cell without a length, and a comparison
\* with NaN is False
is_ge_min_len(field, col) ==
    \A i \in DOMAIN col : HasLen(col[i]) /\ len(col[i]) >= field.min
is_le_max_len(field, col) ==
    \A i \in DOMAIN col : HasLen(col[i]) /\ len(col[i]) <= field.max

\* BaseModel._check_items; its messages carry the bound and no column name
_check_items(field, col) ==
    CASE field.tag \in {"List", "Tuple", "Set", "Dictionary"} ->
             IF VecRaises(col) THEN VectorizeErr
             ELSE IF \E i \in DOMAIN col : ~HasLen(col[i])
             THEN Err("TypeError", "len", "", <<>>, <<>>)
             ELSE IF ~is_ge_min_items(field, col)
             THEN Err("OutOfBoundError", "min_items", "", <<field.min>>, <<>>)
             ELSE IF ~is_le_max_items(field, col)
             THEN Err("OutOfBoundError", "max_items", "", <<field.max>>, <<>>)
             ELSE NoError
      [] field.tag = "String" ->
             IF ~is_ge_min_len(field, col)
             THEN Err("OutOfBoundError", "min_length", "", <<field.min>>, <<>>)
             ELSE IF ~is_le_max_len(field, col)
             THEN Err("OutOfBoundError", "max_length", "", <<field.max>>, <<>>)
             ELSE NoError
      [] OTHER -> NoError

----------------------------------------------------------------------------
(* A validation session: BaseModel(frame, n_jobs).validate() *)

Names == <<"a", "b", "c", "d">>
Cols == 1 .. NumCols

IntegerStrict == Integer(0, 10, FALSE, TRUE, FALSE)
IntegerLoose == Integer(0, 10, TRUE, TRUE, TRUE)
ListField == List(1, 2, TRUE, TRUE)
BooleanStrict == Boolean(FALSE, TRUE)
StringField == String(1, 3, TRUE, TRUE)

Case(field, cells) == [field |-> field, cells |-> cells, present |-> TRUE]
Absent(field) == [field |-> field, cells |-> <<>>, present |-> FALSE]

\* the (field, input column) pairs a schema column is drawn from
Cases ==
    { Case(IntegerStrict, <<IntCell(0), IntCell(5), IntCell(10)>>),
      Case(IntegerStrict, <<IntCell(0), StrCell("5"), IntCell(11)>>),
      Case(IntegerStrict, <<IntCell(0), None, StrCell("foo")>>),
      Case(IntegerStrict, <<IntCell(0), StrCell("'1'"), IntCell(5)>>),
      Case(IntegerStrict, <<StrCell(Binder), IntCell(0), IntCell(5)>>),
      Case(IntegerLoose, <<IntCell(1), FloatCell(5), None>>),
      Case(Float(0, 10, TRUE, TRUE, FALSE), <<FloatCell(5), StrCell("1.0"), NaN>>),
      Case(ListField, <<StrCell("[1]"), Coll("list", 2, "[1, 2]"), Coll("list", 1, "[1]")>>),
      Case(ListField, <<StrCell("[1, 2, 3]"), Coll("list", 1, "[1]"), Coll("list", 1, "[1]")>>),
      Case(BooleanStrict, <<BoolCell(TRUE), StrCell("foo"), BoolCell(FALSE)>>),
      Case(BooleanStrict, <<StrCell("len('ab')"), StrCell("import os"), BoolCell(TRUE)>>),
      Case(StringField, <<StrCell("a"), StrCell("bb"), StrCell("ccc")>>),
      Case(StringField, <<StrCell("a"), IntCell(11), None>>),
      Case(Datetime(1, 9, TRUE, TRUE), <<DtCell(1), StrCell("2024-03-5"), None>>),
      Case(Object(TRUE, TRUE), <<IntCell(1), None, StrCell("x")>>),
      Absent(IntegerStrict) }

NoCall == [fn |-> "none", field |-> Object(TRUE, TRUE), col |-> <<>>,
           out |-> NoError, res |-> <<>>, ran |-> {}]

Running == [status |-> "running", table |-> <<>>, error |-> NoError]

NoCtor == [fn |-> "none", cls |-> "", args |-> <<>>, out |-> NoError, self |-> [tag |-> "none"]]

\* a column of the caller's table that the schema does not declare
Undeclared == "z"
UndeclaredCells == <<IntCell(1), IntCell(5), IntCell(10)>>

Init ==
    \E choice \in [Cols -> Cases] : \E others \in SUBSET {Undeclared} :
        /\ frame = [name \in {Names[i] : i \in {j \in Cols : choice[j].present}}
                                \cup others |->
                       IF name \in others THEN UndeclaredCells
                       ELSE choice[CHOOSE i \in Cols : Names[i] = name].cells]
        /\ frame0 = frame
        /\ field_type = [i \in Cols |-> [name |-> Names[i], field |-> choice[i].field]]
        /\ n_jobs \in 1 .. MaxJobs
        /\ pc = [i \in Cols |-> "queued"]
        /\ column = [i \in Cols |-> <<>>]
        /\ trace = [i \in Cols |-> <<>>]
        /\ error = [i \in Cols |-> NoError]
        /\ executed = {}
        /\ completed = <<>>
        /\ result = Running
        /\ call = NoCall
        /\ validated = <<>>
        /\ ctor = NoCtor

Active == {i \in Cols : pc[i] \notin {"queued", "done", "raised"}}

\* faulty variant: the parsed column is stored back into the caller's table
FrameWritten(fr, name, col) == [fr EXCEPT ![name] = col]

\* the caller's table once a worker has rebound its local `column`: _validate
\* and _parse assign to the local name only
FrameAfter(fr, name, col) == fr

\* faulty variant: the exception is recorded and the call goes on to the
\* next line of _validate
RaiseAndContinue(i, e) ==
    /\ error' = [error EXCEPT ![i] = e]
    /\ pc' = [pc EXCEPT ![i] =
                 CASE pc[i] = "check_null" -> "parse"
                   [] pc[i] = "parse" -> "check_definition"
                   [] pc[i] = "check_definition" -> "check_definition_again"
                   [] pc[i] = "check_definition_again" -> "done"
                   [] OTHER -> "raised"]
    /\ completed' = IF pc[i] \in {"queued", "check_definition_again"}
                    THEN Append(completed, i) ELSE completed

\* a worker leaves _validate by an exception
Raise(i, e) ==
    /\ error' = [error EXCEPT ![i] = e]
    /\ pc' = [pc EXCEPT ![i] = "raised"]
    /\ completed' = Append(completed, i)

\* Parallel dispatches the calls in schema order, at most n_jobs at a time,
\* and none after the sequential loop has met an exception; the call starts
\* with line 343, column = self.frame.loc[:, name], a KeyError when the
\* table has no such column
Start(i) ==
    /\ pc[i] = "queued"
    /\ \A j \in Cols : j < i => pc[j] # "queued"
    /\ Cardinality(Active) < n_jobs
    /\ n_jobs = 1 => \A j \in Cols : pc[j] # "raised"
    /\ IF field_type[i].name \in DOMAIN frame
       THEN /\ column' = [column EXCEPT ![i] = frame[field_type[i].name]]
            /\ pc' = [pc EXCEPT ![i] = "check_null"]
            /\ UNCHANGED <<error, completed>>
       ELSE /\ Raise(i, Err("KeyError", "loc", field_type[i].name, <<>>, <<>>))
            /\ UNCHANGED column
    /\ UNCHANGED <<frame, frame0, field_type, n_jobs, trace, executed, result, call, validated, ctor>>

\* line 344
CheckNull(i) ==
    /\ pc[i] = "check_null"
    /\ trace' = [trace EXCEPT ![i] = Append(@, "null")]
    /\ IF _check_null(field_type[i].field, column[i], field_type[i].name) = NoError
       THEN /\ pc' = [pc EXCEPT ![i] = "parse"]
            /\ UNCHANGED <<error, completed>>
       ELSE Raise(i, _check_null(field_type[i].field, column[i], field_type[i].name))
    /\ UNCHANGED <<frame, frame0, field_type, n_jobs, column, executed, result, call, validated, ctor>>

\* the globals call i of _validate may find in the process that runs it:
\* with n_jobs = 1 all calls run in the caller's process, one after the
\* other; with more jobs the worker process is a fresh one, or one that ran
\* the calls finished before (taken here only when no other call is running)
WorkerGlobals(i) ==
    IF n_jobs = 1 THEN {Globals(executed)}
    ELSE IF Active \ {i} = {} THEN {{}, Globals(executed)}
    ELSE {{}}

\* line 345
Parse(i) ==
    /\ pc[i] = "parse"
    /\ trace' = [trace EXCEPT ![i] = Append(@, "parse")]
    /\ \E names \in WorkerGlobals(i) :
        LET parsed == _parse(field_type[i].field, column[i], field_type[i].name, names)
        IN  /\ executed' = executed \cup parsed.ran
            /\ IF parsed.err = NoError
               THEN /\ column' = [column EXCEPT ![i] = parsed.col]
                    /\ frame' = FrameAfter(frame, field_type[i].name, column'[i])
                    /\ pc' = [pc EXCEPT ![i] = "check_definition"]
                    /\ UNCHANGED <<error, completed>>
               ELSE /\ Raise(i, parsed.err)
                    /\ UNCHANGED <<column, frame>>
    /\ UNCHANGED <<frame0, field_type, n_jobs, result, call, validated, ctor>>

\* lines 346 and 347: the definition check, called twice; line 349 returns
CheckDefinition(i) ==
    /\ pc[i] \in {"check_definition", "check_definition_again"}
    /\ trace' = [trace EXCEPT ![i] = Append(@, "type")]
    /\ IF _check_definition(field_type[i].field, column[i], field_type[i].name) = NoError
       THEN /\ pc' = [pc EXCEPT ![i] = IF pc[i] = "check_definition"
                                       THEN "check_definition_again" ELSE "done"]
            /\ completed' = IF pc[i] = "check_definition"
                            THEN completed ELSE Append(completed, i)
            /\ UNCHANGED error
       ELSE Raise(i, _check_definition(field_type[i].field, column[i], field_type[i].name))
    /\ UNCHANGED <<frame, frame0, field_type, n_jobs, column, executed, result, call, validated, ctor>>

\* faulty variant: the results are gathered in the order the workers finished
GatherByCompletion(cols, order) == [k \in DOMAIN order |-> cols[order[k]]]

\* the list Parallel returns holds the results in the order of submission
Gather(cols, order) == cols

\* faulty variant: a call that raised counts as returned
JoinedOrRaised(p) == \A i \in DOMAIN p : p[i] \in {"done", "raised"}

\* Parallel returns its list once every call has returned
Joined(p) == \A i \in DOMAIN p : p[i] = "done"

\* lines 375-382, all calls returned: pd.concat(columns, axis=1)
Concat ==
    /\ result.status = "running"
    /\ Joined(pc)
    /\ result' = [status |-> "returned",
                  table |-> [k \in Cols |->
                      [name |-> field_type[k].name,
                       cells |-> Gather(column, completed)[k]]],
                  error |-> NoError]
    /\ UNCHANGED <<frame, frame0, field_type, n_jobs, pc, column, trace, error,
                   executed, completed, call, validated, ctor>>

\* lines 375-381, a call raised: Parallel re-raises the exception of a failed call
Abort ==
    /\ result.status = "running"
    /\ \E i \in Cols :
          /\ pc[i] = "raised"
          /\ result' = [status |-> "raised", table |-> <<>>, error |-> error[i]]
    /\ UNCHANGED <<frame, frame0, field_type, n_jobs, pc, column, trace, error,
                   executed, completed, call, validated, ctor>>

\* the caller validates the returned table with the same schema: a new
\* BaseModel on the table validate returned (lines 62-69), and its validate()
Revalidate ==
    /\ result.status = "returned"
    /\ validated = <<>>
    /\ validated' = result.table
    /\ frame' = [name \in {result.table[k].name : k \in Cols} |->
                    result.table[CHOOSE k \in Cols : result.table[k].name = name].cells]
    /\ frame0' = frame'
    /\ pc' = [i \in Cols |-> "queued"]
    /\ column' = [i \in Cols |-> <<>>]
    /\ trace' = [i \in Cols |-> <<>>]
    /\ error' = [i \in Cols |-> NoError]
    /\ completed' = <<>>
    /\ result' = Running
    /\ UNCHANGED <<field_type, n_jobs, executed, call, ctor>>

Next ==
    \/ \E i \in Cols : Start(i)
    \/ \E i \in Cols : CheckNull(i)
    \/ \E i \in Cols : Parse(i)
    \/ \E i \in Cols : CheckDefinition(i)
    \/ Concat
    \/ Abort
    \/ Revalidate

Spec == Init /\ [][Next]_vars

----------------------------------------------------------------------------
(* The stage functions called on their own, as the unit tests call the       *)
(* helpers: one call of one stage function on a field and a column.          *)

StageFields ==
    { IntegerStrict, IntegerLoose, Integer(0, 10, TRUE, FALSE, FALSE),
      Float(0, 10, TRUE, TRUE, FALSE), Float(0, 10, FALSE, TRUE, TRUE),
      BooleanStrict, Boolean(TRUE, TRUE), StringField, String(1, 3, FALSE, TRUE),
      Datetime(1, 9, TRUE, TRUE), ListField, List(1, 2, FALSE, TRUE),
      Tuple(1, 2, TRUE, TRUE), Set(1, 2, TRUE, TRUE), Dictionary(1, 2, TRUE, TRUE),
      Object(TRUE, TRUE) }

\* the cells a column of the field is drawn from
StageCells(field) ==
    CASE field.tag = "Integer" ->
             {IntCell(-1), IntCell(0), IntCell(5), IntCell(10), IntCell(11),
              FloatCell(5), NaN, StrCell("5"), StrCell("foo")}
      [] field.tag = "Float" ->
             {FloatCell(-1), FloatCell(0), FloatCell(10), FloatCell(11),
              IntCell(5), NaN, None, StrCell("1.0"), StrCell("1+1")}
      [] field.tag = "Boolean" ->
             {BoolCell(TRUE), BoolCell(FALSE), None, IntCell(1), StrCell("True"),
              StrCell("import os"), StrCell("len('ab')"), StrCell("None")}
      [] field.tag = "String" ->
             {StrCell(""), StrCell("a"), StrCell("bb"), StrCell("ccc"), StrCell("d"),
              StrCell("dddd"), IntCell(11), None}
      [] field.tag = "Datetime" ->
             {DtCell(1), DtCell(5), DtCell(10), StrCell("2024-03-5"),
              StrCell("foo"), None, IntCell(5)}
      [] field.tag = "List" ->
             {Coll("list", 0, "[]"), Coll("list", 1, "[1]"), Coll("list", 2, "[1, 2]"),
              Coll("list", 3, "[1, 2, 3]"), StrCell("[1]"), StrCell("[1, 2, 3]"),
              Coll("tuple", 2, "(1, 2)"), None, StrCell("1/0")}
      [] field.tag = "Tuple" ->
             {Coll("tuple", 0, "()"), Coll("tuple", 2, "(1, 2)"),
              Coll("tuple", 3, "(1, 2, 3)"), StrCell("(1, 2)"), StrCell("(1)"),
              StrCell("1+'a'"), None}
      [] field.tag = "Set" ->
             {Coll("set", 0, "set()"), Coll("set", 1, "{1}"), Coll("set", 3, "{1, 2, 3}"),
              StrCell("{1}"), StrCell(""), None}
      [] field.tag = "Dictionary" ->
             {Coll("dict", 0, "{}"), Coll("dict", 1, "{'k': 1}"),
              Coll("dict", 3, "{'a': 1, 'b': 2, 'c': 3}"), StrCell("{'k': 1}"),
              StrCell("'a'"), None}
      [] OTHER -> {IntCell(1), StrCell("x"), None}

Columns(cells) == UNION {[1 .. n -> cells] : n \in 0 .. MaxRows}

Called(fn, out, res, ran) ==
    [fn |-> fn, field |-> call.field, col |-> call.col,
     out |-> out, res |-> res, ran |-> ran]

InitStage ==
    /\ frame = <<>> /\ frame0 = <<>> /\ field_type = <<>> /\ n_jobs = 1
    /\ pc = <<>> /\ column = <<>> /\ trace = <<>> /\ error = <<>>
    /\ executed = {} /\ completed = <<>> /\ result = Running
    /\ validated = <<>> /\ ctor = NoCtor
    /\ \E field \in StageFields : \E col \in Columns(StageCells(field)) :
          call = [NoCall EXCEPT !.field = field, !.col = col]

Session == <<frame, frame0, field_type, n_jobs, pc, column, trace, error,
             executed, completed, result, validated>>

CallCheckNull ==
    /\ call.fn = "none"
    /\ call' = Called("_check_null", _check_null(call.field, call.col, "a"), call.col, {})
    /\ UNCHANGED <<Session, ctor>>

CallParse ==
    /\ call.fn = "none"
    /\ call' = Called("_parse", _parse(call.field, call.col, "a", {}).err,
                      _parse(call.field, call.col, "a", {}).col,
                      _parse(call.field, call.col, "a", {}).ran)
    /\ UNCHANGED <<Session, ctor>>

CallCheckDefinition ==
    /\ call.fn = "none"
    /\ call' = Called("_check_definition",
                      _check_definition(call.field, call.col, "a"), call.col, {})
    /\ UNCHANGED <<Session, ctor>>

CallCheckRange ==
    /\ call.fn = "none"
    /\ call' = Called("_check_range", _check_range(call.field, call.col, "a"), call.col, {})
    /\ UNCHANGED <<Session, ctor>>

CallCheckItems ==
    /\ call.fn = "none"
    /\ call' = Called("_check_items", _check_items(call.field, call.col), call.col, {})
    /\ UNCHANGED <<Session, ctor>>

NextStage ==
    \/ CallCheckNull
    \/ CallParse
    \/ CallCheckDefinition
    \/ CallCheckRange
    \/ CallCheckItems

StageSpec == InitStage /\ [][NextStage]_vars

----------------------------------------------------------------------------
(* The field-type constructors (src/src/vrame/column_types.py) and their   *)
(* argument validators (src/src/vrame/_column_types_validation.py).  The   *)
(* arguments are Python values, cells as above; np.inf is the float Inf.   *)
(* An error of a validator carries the argument name in its column field.  *)

PosInf == FloatCell(Inf)
NegInf == FloatCell(-Inf)

ArgErr(kind, rule, arg_str) == Err(kind, rule, arg_str, <<>>, <<>>)

_validate_int(arg, arg_str) ==
    IF ~isinstance(arg, "int") THEN ArgErr("ValueError", "int", arg_str) ELSE NoError

_validate_float(arg, arg_str) ==
    IF ~isinstance(arg, "float") THEN ArgErr("ValueError", "float", arg_str) ELSE NoError

_validate_bool(arg, arg_str) ==
    IF ~isinstance(arg, "bool") THEN ArgErr("ValueError", "bool", arg_str) ELSE NoError

\* arg < 0 in Python: defined between numbers (False for nan), a TypeError
\* that names no argument for None, str and the other types
Ordered(arg) == arg.k \in {"int", "float", "bool"}
Negative(arg) == Ordered(arg) /\ arg # NaN /\ arg.n < 0

\* line 150: if not isinstance(arg, int) and arg < 0
_validate_positive_int(arg, arg_str) ==
    IF isinstance(arg, "int") THEN NoError
    ELSE IF ~Ordered(arg) THEN ArgErr("TypeError", "compare", "")
    ELSE IF Negative(arg) THEN ArgErr("ValueError", "positive_int", arg_str)
    ELSE NoError

\* instances of datetime.date and datetime.time
DateCell(v) == [k |-> "date", n |-> v, s |-> ""]
TimeCell(v) == [k |-> "time", n |-> v, s |-> ""]

\* dateutil's parse(text, fuzzy=False) succeeds: on a date text, and on a
\* lone number above 31 that is not six digits long, which it reads as a year
Parses(t) == IsDateText(t) \/ t = "123"

\* _is_datetime: dateutil's parse raises TypeError, which is not caught, for
\* an argument that is not a str, and ValueError for a text that is no date
_is_datetime(arg) ==
    IF arg.k # "str" THEN [exc |-> "TypeError", val |-> FALSE]
    ELSE [exc |-> "", val |-> Parses(arg.s)]

_validate_datetime(arg, arg_str) ==
    IF arg.k \in {"datetime", "date", "time"} THEN NoError
    ELSE IF _is_datetime(arg).exc # "" THEN ArgErr(_is_datetime(arg).exc, "parse", "")
    ELSE IF ~_is_datetime(arg).val THEN ArgErr("ValueError", "datetime", arg_str)
    ELSE NoError

\* the first exception of the validator calls of a constructor, in call order
FirstError(outs) ==
    IF \A i \in DOMAIN outs : outs[i] = NoError THEN NoError
    ELSE outs[CHOOSE i \in DOMAIN outs :
                 outs[i] # NoError /\ \A j \in 1 .. (i - 1) : outs[j] = NoError]

\* the outcome of a constructor: the exception raised, or the attributes set
NoSelf == [tag |-> "none"]
Constructed(out, self) == [out |-> out, self |-> IF out = NoError THEN self ELSE NoSelf]

IntegerInit(lower, upper, nullable, skipna, allow_float) ==
    Constructed(FirstError(<<_validate_int(lower, "lower"), _validate_int(upper, "upper"),
                             _validate_bool(nullable, "nullable")>>),
                [tag |-> "Integer", lower |-> lower, upper |-> upper,
                 nullable |-> nullable, skipna |-> skipna, allow_float |-> allow_float])

FloatInit(lower, upper, nullable, skipna, allow_int) ==
    Constructed(FirstError(<<_validate_float(lower, "lower"), _validate_float(upper, "upper"),
                             _validate_bool(nullable, "nullable")>>),
                [tag |-> "Float", lower |-> lower, upper |-> upper,
                 nullable |-> nullable, skipna |-> skipna, allow_int |-> allow_int])

DatetimeInit(lower, upper, nullable, skipna, yearfirst) ==
    Constructed(FirstError(<<_validate_datetime(lower, "lower"),
                             _validate_datetime(upper, "upper"),
                             _validate_bool(nullable, "nullable")>>),
                [tag |-> "Datetime", lower |-> lower, upper |-> upper,
                 nullable |-> nullable, skipna |-> skipna, yearfirst |-> yearfirst])

StringInit(min_length, max_length, nullable, skipna) ==
    Constructed(FirstError(<<_validate_positive_int(min_length, "min_length"),
                             _validate_positive_int(max_length, "max_length"),
                             _validate_bool(nullable, "nullable")>>),
                [tag |-> "String", min_length |-> min_length, max_length |-> max_length,
                 nullable |-> nullable, skipna |-> skipna])

\* List, Tuple, Set and Dictionary have the same constructor body
ItemsInit(tag, min_items, max_items, nullable, skipna) ==
    Constructed(FirstError(<<_validate_bool(nullable, "nullable"),
                             _validate_positive_int(min_items, "min_items"),
                             _validate_positive_int(max_items, "max_items")>>),
                [tag |-> tag, min_items |-> min_items, max_items |-> max_items,
                 nullable |-> nullable, skipna |-> skipna])

\* Boolean and Object
FlagsInit(tag, nullable, skipna) ==
    Constructed(_validate_bool(nullable, "nullable"),
                [tag |-> tag, nullable |-> nullable, skipna |-> skipna])

\* the argument values tried
FlagArgs == {BoolCell(TRUE), BoolCell(FALSE), StrCell("yes"), IntCell(1), None}
IntArgs == {IntCell(-1), IntCell(0), IntCell(10), FloatCell(5), NegInf, PosInf,
            StrCell("5"), None}
FloatArgs == {FloatCell(0), FloatCell(10), IntCell(5), NegInf, PosInf, StrCell("1.0")}
DatetimeArgs == {DtCell(1), DtCell(9), DateCell(1), TimeCell(0), StrCell("2024-03-1"),
                 StrCell("yes"), StrCell("123"), StrCell("123456"), IntCell(5), None}
LengthArgs == {IntCell(-1), IntCell(0), IntCell(3), FloatCell(-1), FloatCell(2), PosInf,
               StrCell("3"), None}

Made(cls, args, made) ==
    [fn |-> "__init__", cls |-> cls, args |-> args, out |-> made.out, self |-> made.self]

InitCtor ==
    /\ frame = <<>> /\ frame0 = <<>> /\ field_type = <<>> /\ n_jobs = 1
    /\ pc = <<>> /\ column = <<>> /\ trace = <<>> /\ error = <<>>
    /\ executed = {} /\ completed = <<>> /\ result = Running
    /\ validated = <<>> /\ call = NoCall /\ ctor = NoCtor

NewInteger ==
    /\ ctor.fn = "none"
    /\ \E lower, upper \in IntArgs : \E nullable, skipna, allow_float \in FlagArgs :
          ctor' = Made("Integer",
                       [lower |-> lower, upper |-> upper, nullable |-> nullable,
                        skipna |-> skipna, allow_float |-> allow_float],
                       IntegerInit(lower, upper, nullable, skipna, allow_float))
    /\ UNCHANGED <<Session, call>>

NewFloat ==
    /\ ctor.fn = "none"
    /\ \E lower, upper \in FloatArgs : \E nullable, skipna, allow_int \in FlagArgs :
          ctor' = Made("Float",
                       [lower |-> lower, upper |-> upper, nullable |-> nullable,
                        skipna |-> skipna, allow_int |-> allow_int],
                       FloatInit(lower, upper, nullable, skipna, allow_int))
    /\ UNCHANGED <<Session, call>>

NewDatetime ==
    /\ ctor.fn = "none"
    /\ \E lower, upper \in DatetimeArgs : \E nullable, skipna, yearfirst \in FlagArgs :
          ctor' = Made("Datetime",
                       [lower |-> lower, upper |-> upper, nullable |-> nullable,
                        skipna |-> skipna, yearfirst |-> yearfirst],
                       DatetimeInit(lower, upper, nullable, skipna, yearfirst))
    /\ UNCHANGED <<Session, call>>

NewString ==
    /\ ctor.fn = "none"
    /\ \E min_length, max_length \in LengthArgs : \E nullable, skipna \in FlagArgs :
          ctor' = Made("String",
                       [min_length |-> min_length, max_length |-> max_length,
                        nullable |-> nullable, skipna |-> skipna],
                       StringInit(min_length, max_length, nullable, skipna))
    /\ UNCHANGED <<Session, call>>

NewItems ==
    /\ ctor.fn = "none"
    /\ \E tag \in {"List", "Tuple", "Set", "Dictionary"} :
       \E min_items, max_items \in LengthArgs : \E nullable, skipna \in FlagArgs :
          ctor' = Made(tag,
                       [min_items |-> min_items, max_items |-> max_items,
                        nullable |-> nullable, skipna |-> skipna],
                       ItemsInit(tag, min_items, max_items, nullable, skipna))
    /\ UNCHANGED <<Session, call>>

NewFlags ==
    /\ ctor.fn = "none"
    /\ \E tag \in {"Boolean", "Object"} : \E nullable, skipna \in FlagArgs :
          ctor' = Made(tag, [nullable |-> nullable, skipna |-> skipna],
                       FlagsInit(tag, nullable, skipna))
    /\ UNCHANGED <<Session, call>>

\* a direct call of _validate_datetime, as the unit tests make it
CallValidateDatetime ==
    /\ ctor.fn = "none"
    /\ \E arg \in DatetimeArgs :
          ctor' = [fn |-> "_validate_datetime", cls |-> "", args |-> [arg |-> arg],
                   out |-> _validate_datetime(arg, "arg"), self |-> NoSelf]
    /\ UNCHANGED <<Session, call>>

\* a direct call of _validate_positive_int, as the unit tests make it
CallValidatePositiveInt ==
    /\ ctor.fn = "none"
    /\ \E arg \in LengthArgs :
          ctor' = [fn |-> "_validate_positive_int", cls |-> "", args |-> [arg |-> arg],
                   out |-> _validate_positive_int(arg, "arg"), self |-> NoSelf]
    /\ UNCHANGED <<Session, call>>

\* the __dict__ of a model class: the entries Python adds, then the members
\* the class body declares, in declaration order.  A member is its name and
\* the class of its value: a field type, or str (a constant), or function (a
\* method).
FieldClasses == {"Integer", "Float", "Boolean", "Datetime", "String", "List",
                 "Tuple", "Set", "Dictionary", "Object"}
Member(name, type) == [name |-> name, type |-> type]
Added == <<Member("__module__", "str"), Member("__doc__", "str")>>
Declarable == {Member("a", "Integer"), Member("b", "String"),
               Member("note", "str"), Member("helper", "function")}
MaxMembers == 3
Bodies ==
    {body \in UNION {[1 .. n -> Declarable] : n \in 0 .. MaxMembers} :
        \A i, j \in DOMAIN body : i # j => body[i].name # body[j].name}

\* k.startswith('__'), on the names of the model
startswith__(k) == k \in {"__module__", "__doc__"}

\* line 67: {k: v for k, v in self.__class__.__dict__.items()
\*           if not k.startswith('__')}
Public(m) == ~startswith__(m.name)
field_type_of(members) == SelectSeq(members, Public)

\* BaseModel.__init__(frame, n_jobs) of a class with the given __dict__;
\* frame is the class of the first argument
BaseModelInit(members, fr) ==
    Constructed(IF fr # "DataFrame" THEN ArgErr("ValueError", "frame", "frame") ELSE NoError,
                [tag |-> "BaseModel", field_type |-> field_type_of(members)])

NewBaseModel ==
    /\ ctor.fn = "none"
    /\ \E body \in Bodies : \E fr \in {"DataFrame", "dict"} :
          ctor' = [fn |-> "BaseModel.__init__", cls |-> "BaseModel",
                   args |-> [members |-> Added \o body, frame |-> fr],
                   out |-> BaseModelInit(Added \o body, fr).out,
                   self |-> BaseModelInit(Added \o body, fr).self]
    /\ UNCHANGED <<Session, call>>

NextCtor ==
    \/ NewInteger
    \/ NewFloat
    \/ NewDatetime
    \/ NewString
    \/ NewItems
    \/ NewFlags
    \/ CallValidatePositiveInt
    \/ CallValidateDatetime
    \/ NewBaseModel

CtorSpec == InitCtor /\ [][NextCtor]_vars

----------------------------------------------------------------------------
(* Properties of a validation session (Spec) *)

\* every constraint of a field type, on one column
NonNull(cells) == {i \in DOMAIN cells : ~isnull(cells[i])}
MeetsConstraints(field, cells) ==
    /\ ~field.nullable => NonNull(cells) = DOMAIN cells
    /\ field.tag # "Object" =>
          \A i \in NonNull(cells) : isinstance(cells[i], NativeType(field))
    /\ field.tag \in {"Integer", "Float"} =>
          \A i \in NonNull(cells) :
              cells[i].k \in {"int", "float"} =>
                  cells[i].n >= field.lower /\ cells[i].n <= field.upper
    /\ field.tag \in {"List", "Tuple", "Set", "Dictionary", "String"} =>
          \A i \in NonNull(cells) :
              HasLen(cells[i]) =>
                  len(cells[i]) >= field.min /\ len(cells[i]) <= field.max

\* C1: whenever validate returns a table, every schema column of the table
\* satisfies every constraint of its field type (no null in a non-nullable
\* column, every non-null cell of the native type, numbers within
\* [lower, upper], item counts and lengths within [min, max]).
C1_ReturnedTableMeetsConstraints ==
    result.status = "returned" =>
        \A k \in Cols : MeetsConstraints(field_type[k].field, result.table[k].cells)

Stages == <<"null", "parse", "type", "range", "items">>

\* C2: the per-column validator runs the five stages once each, in the order
\* null-check, parse, type-check, range-check, item-check: the stages run so
\* far are a prefix of that order, and all five have run when it returns.
C2_FiveStagesInOrder ==
    \A i \in Cols :
        /\ Len(trace[i]) <= Len(Stages)
        /\ trace[i] = SubSeq(Stages, 1, Len(trace[i]))
        /\ pc[i] = "done" => trace[i] = Stages

\* C3: for any parallelism degree and any completion order, when every
\* column's validator has returned, validate does not raise, and the table it
\* returns holds all the schema columns, each validated column under its own
\* name, in the order the schema declares them.
C3_TableInSchemaOrder ==
    (\A i \in Cols : pc[i] = "done") =>
        /\ result.status # "raised"
        /\ result.status = "returned" =>
              /\ Len(result.table) = NumCols
              /\ \A k \in Cols :
                    /\ result.table[k].name = Names[k]
                    /\ result.table[k].name = field_type[k].name
                    /\ result.table[k].cells = column[k]

\* a table of distinct columns, assembled after the workers finished in an
\* order other than the schema's
C3_Witness ==
    /\ result.status = "returned"
    /\ n_jobs > 1
    /\ completed[1] # 1
    /\ result.table[1].cells # result.table[2].cells

\* C4: once the validator of a column has failed, validate returns no table;
\* when validate raises, the error is the one a failed column raised; a
\* returned table means no column failed.
C4_FailureSurfaced ==
    /\ (\E i \in Cols : pc[i] = "raised") => result.status # "returned"
    /\ result.status = "raised" =>
          \E i \in Cols : pc[i] = "raised" /\ error[i] # NoError /\ result.error = error[i]
    /\ result.status = "returned" =>
          result.error = NoError /\ \A i \in Cols : pc[i] = "done" /\ error[i] = NoError

\* validate raised the error of a failed column while another column was valid
C4_Witness ==
    /\ result.status = "raised"
    /\ \E i, j \in Cols : pc[i] = "raised" /\ pc[j] = "done" /\ result.error = error[i]

C7_MissingColumnSchemaMismatch ==
    \A i \in Cols :
        field_type[i].name \notin DOMAIN frame /\ pc[i] # "queued" =>
            /\ pc[i] = "raised"
            /\ error[i].kind = "SchemaMismatchError"
            /\ error[i].column = field_type[i].name
            /\ trace[i] = <<>>

----------------------------------------------------------------------------
(* Properties of the stage functions (StageSpec) *)

IsNumber(c) == c.k \in {"int", "float"} /\ ~isnull(c)

\* C8: on a column of numbers, the range-check of an Integer or Float field
\* fails with OutOfBoundError if and only if a cell is below lower or above
\* upper, the bounds included; with lower 0 and upper 10, [0, 5, 10] passes
\* and [0, 5, 11] fails reporting the maximum 11 and the upper bound 10.
C8_RangeCheck ==
    (/\ call.fn = "_check_range"
     /\ call.field.tag \in {"Integer", "Float"}
     /\ \A i \in DOMAIN call.col : IsNumber(call.col[i])) =>
        /\ (call.out.kind = "OutOfBoundError")
              <=> \E i \in DOMAIN call.col :
                      \/ call.col[i].n < call.field.lower
                      \/ call.col[i].n > call.field.upper
        /\ call.out.kind \in {"OutOfBoundError", "none", "ValueError"}
        /\ call.out.kind = "ValueError" <=> call.col = <<>>
        /\ call.out.kind = "OutOfBoundError" => call.out.column = "a"
        /\ (call.field.lower = 0 /\ call.field.upper = 10) =>
              /\ call.col = <<IntCell(0), IntCell(5), IntCell(10)>> => call.out = NoError
              /\ call.col = <<IntCell(0), IntCell(5), IntCell(11)>> =>
                    /\ call.out.kind = "OutOfBoundError"
                    /\ call.out.rule = "upper"
                    /\ call.out.bound = <<10>>
                    /\ call.out.value = <<11>>

\* the range-check failed on [0, 5, 11]
C8_Witness ==
    /\ call.fn = "_check_range"
    /\ call.field.tag = "Integer"
    /\ call.col = <<IntCell(0), IntCell(5), IntCell(11)>>
    /\ call.out.kind = "OutOfBoundError"

EvalTags == {"Integer", "Float", "Boolean", "List", "Tuple", "Dictionary", "Set"}

\* C10: for an Integer, Float, Boolean, List, Tuple, Dictionary or Set field,
\* a textual cell that is not a literal of the restricted grammar makes the
\* parse stage fail with ParseError naming the column; no other error kind
\* escapes the parse stage and no text is executed as code.
C10_NonLiteralIsParseError ==
    (call.fn = "_parse" /\ call.field.tag \in EvalTags) =>
        /\ (\E i \in DOMAIN call.col :
                call.col[i].k = "str" /\ ~IsLiteral(call.col[i].s))
              => (call.out.kind = "ParseError" /\ call.out.column = "a")
        /\ call.out.kind \in {"none", "ParseError"}
        /\ call.ran = {}

----------------------------------------------------------------------------
(* Properties of the parse and type-check stages (StageSpec) *)

\* every cell of the column is a value of the native type of the field
AllNative(field, col) ==
    field.tag = "Object" \/ \A i \in DOMAIN col : isinstance(col[i], NativeType(field))

----------------------------------------------------------------------------
(* Properties of repeated validation (Spec) *)

\* C12: idempotence of validate: when validate has returned a table and that
\* table is validated again with the same schema, the second call does not
\* raise, no column of it fails, and the table it returns equals the first
\* returned table cell for cell.
C12_ValidateIdempotent ==
    validated # <<>> =>
        /\ result.status # "raised"
        /\ \A i \in Cols : pc[i] # "raised"
        /\ result.status = "returned" => result.table = validated

\* the non-null cells of the column that are not of the native type of the field
Mismatched(field, col) ==
    {i \in DOMAIN col : ~isnull(col[i]) /\ ~isinstance(col[i], NativeType(field))}

\* C13: the loosening flag suppresses the cross-type error: the type-check of
\* an Integer field with allow_float false (a Float field with allow_int
\* false) fails with a TypeError naming the column when a non-null cell is
\* not an integer (not a float); with the flag true, a column whose cells are
\* all integers or floats passes the type-check.
C13_LooseningFlag ==
    (call.fn = "_check_definition" /\ call.field.tag \in {"Integer", "Float"}
        /\ Len(call.col) > 0) =>
        /\ (~call.field.allow /\ Mismatched(call.field, call.col) # {}) =>
               (call.out.kind = "TypeError" /\ call.out.column = "a")
        /\ (call.field.allow /\ _vec_isnumeric(call.col)) => call.out = NoError

CheckedTags == {"Boolean", "Datetime", "List", "Tuple", "Dictionary", "Set"}

\* C14: for a nullable Boolean, Datetime, List, Tuple, Dictionary or Set
\* field, the type-check fails, with a TypeError naming the column, if and
\* only if some non-null cell is not of the native type of the field; null
\* cells are ignored, so a column whose non-null cells all match passes.
C14_TypeCheckIgnoresNulls ==
    (call.fn = "_check_definition" /\ call.field.tag \in CheckedTags
        /\ call.field.nullable /\ Len(call.col) > 0) =>
        /\ call.out.kind \in {"none", "TypeError"}
        /\ call.out.kind = "TypeError" <=> Mismatched(call.field, call.col) # {}
        /\ call.out.kind = "TypeError" => call.out.column = "a"

----------------------------------------------------------------------------
(* Properties of the field-type constructors (CtorSpec) *)

\* the flag arguments of the constructor called that are not booleans
FlagNames == {"nullable", "skipna", "allow_float", "allow_int", "yearfirst"}
NonBoolFlags ==
    {a \in DOMAIN ctor.args \cap FlagNames : ~isinstance(ctor.args[a], "bool")}

\* C15: every field-type constructor rejects a non-boolean value of any of
\* its flags (nullable, skipna, allow_float, allow_int, yearfirst): the
\* constructor raises, no field is constructed, and an error about a flag
\* names an offending flag argument.
C15_FlagsValidated ==
    (ctor.fn = "__init__" /\ NonBoolFlags # {}) =>
        /\ ctor.out # NoError
        /\ ctor.self = NoSelf
        /\ ctor.out.rule = "bool" => ctor.out.column \in NonBoolFlags

\* a length or item bound the constructors must refuse: a negative number or
\* a value that is not an int (the infinite default of max_items aside)
BoundNames == {"min_length", "max_length", "min_items", "max_items"}
NonNegativeInt(arg) == arg.k = "int" /\ arg.n >= 0
BadBounds ==
    {a \in DOMAIN ctor.args \cap BoundNames :
        ~NonNegativeInt(ctor.args[a]) /\ ctor.args[a] # PosInf}

\* C16: the String, List, Tuple, Set and Dictionary constructors raise an
\* error when a min/max length or item bound is negative or not an integer,
\* and _validate_positive_int raises ValueError for every argument that is
\* not a non-negative int.
C16_BoundsValidated ==
    /\ (ctor.fn = "__init__" /\ BadBounds # {}) =>
           (ctor.out # NoError /\ ctor.self = NoSelf)
    /\ (ctor.fn = "_validate_positive_int"
           /\ ~NonNegativeInt(ctor.args.arg) /\ ctor.args.arg # PosInf) =>
           ctor.out.kind = "ValueError"

\* C17: constructing an Integer field with the default bounds (lower =
\* -np.inf, upper = np.inf) and boolean flags succeeds, and the field has
\* lower = negative infinity and upper = positive infinity.
C17_IntegerDefaults ==
    (ctor.fn = "__init__" /\ ctor.cls = "Integer"
        /\ ctor.args.lower = NegInf /\ ctor.args.upper = PosInf
        /\ NonBoolFlags = {}) =>
        /\ ctor.out = NoError
        /\ ctor.self.tag = "Integer"
        /\ ctor.self.lower = NegInf /\ ctor.self.upper = PosInf

----------------------------------------------------------------------------
(* Properties of the errors of the stage functions (StageSpec) *)

\* C18: every error raised by a stage function (null-check, parse,
\* type-check, range-check, item/length-check) on a column of at least one
\* row carries the name of the column it was raised on, together with the
\* rule that was violated.
C18_ErrorsNameColumn ==
    (call.fn # "none" /\ Len(call.col) > 0 /\ call.out # NoError) =>
        /\ call.out.column = "a"
        /\ call.out.rule # ""

----------------------------------------------------------------------------
(* Properties of the columns of a session (Spec) *)

\* BaseModel._validate as a function of the field, the column of that name
\* and nothing else: lines 343-349 run in a process where no text has been
\* evaluated before
Outcome(err, col) == [err |-> err, col |-> col]
_validate(field, fr, name) ==
    IF name \notin DOMAIN fr
    THEN Outcome(Err("KeyError", "loc", name, <<>>, <<>>), <<>>)
    ELSE IF _check_null(field, fr[name], name) # NoError
    THEN Outcome(_check_null(field, fr[name], name), <<>>)
    ELSE IF _parse(field, fr[name], name, {}).err # NoError
    THEN Outcome(_parse(field, fr[name], name, {}).err, <<>>)
    ELSE Outcome(_check_definition(field, _parse(field, fr[name], name, {}).col, name),
                 IF _check_definition(field, _parse(field, fr[name], name, {}).col, name)
                        = NoError
                 THEN _parse(field, fr[name], name, {}).col ELSE <<>>)

\* C19: column independence: the outcome of the validator of a column, the
\* coerced column it returns or the error it raises, is the one its own
\* cells and its field type determine, whatever the other columns of the
\* table contain and however the workers are interleaved.
C19_ColumnIndependence ==
    \A i \in Cols :
        /\ pc[i] = "done" =>
              /\ _validate(field_type[i].field, frame0, field_type[i].name).err = NoError
              /\ _validate(field_type[i].field, frame0, field_type[i].name).col = column[i]
        /\ pc[i] = "raised" =>
              _validate(field_type[i].field, frame0, field_type[i].name).err = error[i]

\* the stage an error was raised by ("" for the KeyError of line 343, which
\* no stage raises)
StageOf(rule) ==
    CASE rule = "null" -> "null"
      [] rule = "parse" -> "parse"
      [] rule \in {"type", "vectorize"} -> "type"
      [] OTHER -> ""

\* the field is not nullable and the column holds both a null and a text
\* that eval cannot parse
NullAndUnparseable(field, cells) ==
    /\ ~field.nullable
    /\ field.tag \in EvalTags
    /\ \E j \in DOMAIN cells : isnull(cells[j])
    /\ \E j \in DOMAIN cells : cells[j].k = "str" /\ eval(cells[j].s, {}).exc = "NameError"

\* C20: per-column fail-fast: a validator that failed raised the error of
\* the last stage it ran, so no stage ran after the failing one; and a
\* non-nullable column that holds both a null and unparseable text fails in
\* the null-check, with its error, the parse stage never running.
C20_FailFast ==
    \A i \in Cols :
        /\ pc[i] = "raised" =>
              /\ error[i] # NoError
              /\ IF StageOf(error[i].rule) = ""
                 THEN trace[i] = <<>>
                 ELSE trace[i] # <<>> /\ trace[i][Len(trace[i])] = StageOf(error[i].rule)
        /\ pc[i] # "raised" => error[i] = NoError
        /\ (field_type[i].name \in DOMAIN frame0
              /\ NullAndUnparseable(field_type[i].field, frame0[field_type[i].name])
              /\ pc[i] \notin {"queued", "check_null"}) =>
              /\ pc[i] = "raised"
              /\ error[i] = Err("ValueError", "null", field_type[i].name, <<>>, <<>>)
              /\ trace[i] = <<"null">>

\* a column with a null and the text foo failed in the null-check
C20_Witness ==
    \E i \in Cols :
        /\ field_type[i].name \in DOMAIN frame0
        /\ NullAndUnparseable(field_type[i].field, frame0[field_type[i].name])
        /\ pc[i] = "raised"
        /\ error[i].rule = "null"

----------------------------------------------------------------------------
(* Properties of the returned table and of the schema *)

\* C21: when validate returns, the set of column names of the returned table
\* equals the set of column names of the table it was given, and the columns
\* are in schema order.
C21_SameColumnSet ==
    result.status = "returned" =>
        /\ {result.table[k].name : k \in DOMAIN result.table} = DOMAIN frame0
        /\ \A k \in DOMAIN result.table : result.table[k].name = field_type[k].name

\* the declared members of a class body that are field-type instances
IsField(m) == m.type \in FieldClasses

\* C22: the schema built by BaseModel.__init__ holds exactly the members of
\* the model class that are bound to a field-type instance, in declaration
\* order: every entry of the schema is a field-type instance, and no other
\* member of the class is an entry.
C22_SchemaIsDeclaredFields ==
    (ctor.fn = "BaseModel.__init__" /\ ctor.out = NoError) =>
        /\ ctor.self.field_type = SelectSeq(ctor.args.members, IsField)
        /\ \A k \in DOMAIN ctor.self.field_type : IsField(ctor.self.field_type[k])

\* C23: for a Datetime field the range-check enforces the declared bounds as
\* it does for numbers: on a column of datetimes it fails with
\* OutOfBoundError when a cell is earlier than lower or later than upper and
\* passes otherwise, and it fails with a TypeError naming the column when a
\* cell is not datetime-typed.
C23_DatetimeRange ==
    (call.fn = "_check_range" /\ call.field.tag = "Datetime" /\ Len(call.col) > 0) =>
        IF \E i \in DOMAIN call.col : ~isinstance(call.col[i], "datetime")
        THEN call.out.kind = "TypeError" /\ call.out.column = "a"
        ELSE IF \E i \in DOMAIN call.col :
                    call.col[i].k = "datetime" /\
                    (call.col[i].n < call.field.lower \/ call.col[i].n > call.field.upper)
        THEN call.out.kind = "OutOfBoundError"
        ELSE call.out = NoError

\* an argument a Datetime bound may be: an instance of datetime, date or
\* time, or a text that spells a date
DatetimeLike(arg) ==
    arg.k \in {"datetime", "date", "time"} \/ (arg.k = "str" /\ IsDateText(arg.s))

\* C24: _validate_datetime raises nothing for an instance of datetime, date
\* or time and for a datetime-like string, and raises ValueError naming the
\* argument for every other argument, whatever its kind (an integer, None,
\* the string "123").
C24_ValidateDatetime ==
    ctor.fn = "_validate_datetime" =>
        IF DatetimeLike(ctor.args.arg)
        THEN ctor.out = NoError
        ELSE ctor.out.kind = "ValueError" /\ ctor.out.column = "arg"

\* C25: the parse stage preserves nullness cell by cell for every field type:
\* in the column it returns, a cell is null if and only if the cell at that
\* position was null before parsing, so parsing neither hides nor introduces
\* a null after the null-check.
C25_ParsePreservesNull ==
    (call.fn = "_parse" /\ call.out = NoError) =>
        /\ Len(call.res) = Len(call.col)
        /\ \A i \in DOMAIN call.col : isnull(call.res[i]) <=> isnull(call.col[i])

====
